---------------------------- MODULE Spec2Model ----------------------------
(***************************************************************************)
(* Model of src/main2.py: the transcription-to-summarization pipeline      *)
(* (translate_and_summarize), the transcript formatter (format_transcript) *)
(* and the prompt builder / stream assembler (summarize_with_model).       *)
(*                                                                         *)
(* A Python str is modelled as a sequence of tokens.  A token is either a  *)
(* single character ("a", "b", " ", "\n"), the three-character substring   *)
(* "-->" taken as a unit (input texts contain '-' and '>' only inside that *)
(* substring), or a string literal of the source taken as a unit.          *)
(***************************************************************************)
EXTENDS Naturals, Sequences, FiniteSets, TLC

(***************************************************************************)
(* Bounds of the model.                                                    *)
(***************************************************************************)
\* longest raw text given to format_transcript on its own
MaxLen == 5
\* longest raw transcript the speech engine writes in a pipeline run
MaxRawLen == 2
\* largest number of lines in a streamed response body
MaxLines == 2

(***************************************************************************)
(* Strings.                                                                *)
(***************************************************************************)
NL == "\n"
SP == " "
ARROW == "-->"

Chars == {"a", "b", SP, NL, ARROW}

\* all strings over S of length at most n
StringsUpTo(S, n) == UNION {[1..k -> S] : k \in 0..n}

\* str.isspace() for one character
IsSpace(c) == c \in {SP, NL}

RECURSIVE lstrip(_)
lstrip(s) ==
    IF s = <<>> THEN <<>>
    ELSE IF IsSpace(Head(s)) THEN lstrip(Tail(s)) ELSE s

RECURSIVE rstrip(_)
rstrip(s) ==
    IF s = <<>> THEN <<>>
    ELSE IF IsSpace(s[Len(s)]) THEN rstrip(SubSeq(s, 1, Len(s) - 1)) ELSE s

\* str.strip() with no argument: leading and trailing whitespace removed
strip(s) == rstrip(lstrip(s))

\* sep in s, for a one-token separator
Contains(s, sep) == \E i \in 1..Len(s) : s[i] = sep

\* str.split(sep): the pieces between successive occurrences of sep;
\* always at least one piece
RECURSIVE split(_, _)
split(s, sep) ==
    IF ~Contains(s, sep) THEN <<s>>
    ELSE LET i == CHOOSE k \in 1..Len(s) :
                      s[k] = sep /\ \A j \in 1..(k - 1) : s[j] # sep
         IN  <<SubSeq(s, 1, i - 1)>> \o split(SubSeq(s, i + 1, Len(s)), sep)

\* sep.join(parts)
RECURSIVE join(_, _)
join(sep, parts) ==
    IF parts = <<>> THEN <<>>
    ELSE IF Len(parts) = 1 THEN parts[1]
    ELSE parts[1] \o <<sep>> \o join(sep, Tail(parts))

(***************************************************************************)
(* format_transcript (src/main2.py:449-473).                               *)
(***************************************************************************)
\* line.split("-->")[1] of line 468: the piece between the first marker and
\* the second one (or the end of the line)
SplitArrowKeep(line) == split(line, ARROW)[2]

\* one iteration of the loop body of lines 464-469 applied to `line`,
\* given the lines already appended
FormatLine(acc, line) ==
    IF strip(line) # <<>>
    THEN IF Contains(line, ARROW)
         THEN Append(acc, strip(SplitArrowKeep(line)))
         ELSE Append(acc, line)
    ELSE acc

RECURSIVE FormatLines(_, _)
FormatLines(acc, lines) ==
    IF lines = <<>> THEN acc
    ELSE FormatLines(FormatLine(acc, Head(lines)), Tail(lines))

\* formatted_lines at line 472, for the raw text `transcript`
formatted_lines(transcript) == FormatLines(<<>>, split(strip(transcript), NL))

format_transcript(transcript) == join(NL, formatted_lines(transcript))

(***************************************************************************)
(* The prompt table and the streamed response (src/main2.py:13-85, 321-352)*)
(***************************************************************************)
\* the keys of `prompts`
PromptKeys ==
    {"Meeting Recording", "Song", "Lecture", "Podcast", "Interview",
     "Audiobook", "Voice Memo", "Conference Talk"}

\* prompts[k]: the template text of key k, as two tokens
prompts == [k \in PromptKeys |-> <<"template of", k>>]

\* audio types a caller may pass: the keys and one that is no key
AudioTypes == PromptKeys \cup {"Karaoke"}
\* audio types of the pipeline runs explored
RunAudioTypes == {"Song", "Karaoke"}
\* contexts a caller may pass: the empty one and a non-empty one
Contexts == {<<>>, <<"ctx">>}
\* transcript texts given to summarize_with_model when it is called directly
Texts == StringsUpTo({"a", NL}, 1)

NoPromptAvailable == <<"No prompt available for this audio type.">>
NoContextProvided == <<"No additional context provided.">>

\* the lookup with an empty default instead of the sentinel
prompts_get_nodefault(audio_type) ==
    IF audio_type \in DOMAIN prompts THEN prompts[audio_type] ELSE <<>>

\* prompts.get(audio_type, default) of line 321
prompts_get(audio_type) ==
    IF audio_type \in DOMAIN prompts THEN prompts[audio_type]
    ELSE NoPromptAvailable

\* the f-string of line 322
BuildPrompt(audio_type, ctx, text) ==
    prompts_get(audio_type)
        \o <<"\n\nContext: ">>
        \o (IF ctx # <<>> THEN ctx ELSE NoContextProvided)
        \o <<"\n\nTranscript:\n">> \o text \o <<"\n\nSummary:">>

HTTP_OK == 200
StatusCodes == {HTTP_OK, 500}

\* The lines response.iter_lines() may yield, as their bytes.
BlankLine == ""
FragX == "{\"response\": \"x\", \"done\": false}"
FragY == "{\"response\": \"y\", \"done\": true}"
FragNoFields == "{}"
JsonArray == "[1]"
NotJson == "<html>"
BadUtf8 == "\\xff"

LineValues == {BlankLine, FragX, FragY, FragNoFields, JsonArray, NotJson, BadUtf8}
Bodies == StringsUpTo(LineValues, MaxLines)

\* line.decode("utf-8") of line 338: raises UnicodeDecodeError on bytes
\* that are no UTF-8
decode(line) ==
    IF line = BadUtf8 THEN [ok |-> FALSE, text |-> ""]
    ELSE [ok |-> TRUE, text |-> line]

\* json.loads of line 339 on the decoded lines above: ok is FALSE when it
\* raises json.JSONDecodeError; is_dict tells a JSON object from another
\* JSON value; keys are the keys of the object
json_loads(text) ==
    CASE text = FragX ->
           [ok |-> TRUE, is_dict |-> TRUE, keys |-> {"response", "done"},
            response |-> <<"x">>, done |-> FALSE]
      [] text = FragY ->
           [ok |-> TRUE, is_dict |-> TRUE, keys |-> {"response", "done"},
            response |-> <<"y">>, done |-> TRUE]
      [] text = FragNoFields ->
           [ok |-> TRUE, is_dict |-> TRUE, keys |-> {},
            response |-> <<>>, done |-> FALSE]
      [] text = JsonArray ->
           [ok |-> TRUE, is_dict |-> FALSE, keys |-> {},
            response |-> <<>>, done |-> FALSE]
      [] OTHER ->
           [ok |-> FALSE, is_dict |-> FALSE, keys |-> {},
            response |-> <<>>, done |-> FALSE]

\* json_line.get("response", "") of line 341
get_response(json_line) ==
    IF "response" \in json_line.keys THEN json_line.response ELSE <<>>

\* a completion flag that is never seen
get_done_never(json_line) == FALSE

\* json_line.get("done", False) of line 343
get_done(json_line) ==
    IF "done" \in json_line.keys THEN json_line.done ELSE FALSE

\* response.text: the body as one text
response_text(b) == join(NL, [i \in 1..Len(b) |-> <<b[i]>>])

\* the f-string of line 348
ParseFailure(b) ==
    <<"Failed to parse the response from the server. Raw response: ">>
        \o response_text(b)

(***************************************************************************)
(* State.                                                                  *)
(***************************************************************************)
VARIABLES
    \* translate_and_summarize (lines 381-447)
    pc,                   \* position of the run in translate_and_summarize
    context,              \* argument context
    audio_type,           \* argument audio_type
    fs,                   \* the files the run touches: name -> [exists, content]
    prior_final,          \* fs["final_transcript_file"] when the run started
    returncode,           \* process.returncode of the converter (line 376)
    model_file,           \* os.path.exists(model_path) as seen at line 413
    whisper_returncode,   \* exit code of the speech-engine command (line 422)
    whisper_runs,         \* number of times the speech-engine command was run
    transcript,           \* local transcript (line 429)
    formatted_transcript, \* local formatted_transcript (line 432)
    t_result,             \* how translate_and_summarize ended
    \* summarize_with_model (lines 307-352)
    spc,                  \* position in summarize_with_model
    s_args,               \* its arguments [context, text, audio_type]
    prompt,               \* local prompt, the one sent at line 327
    status_code,          \* response.status_code
    body,                 \* the lines of the response body, in arrival order
    nread,                \* number of lines iter_lines() has handed out
    full_response,        \* local full_response
    s_result,             \* how summarize_with_model ended
    \* format_transcript called on its own (lines 449-473)
    fpc,                  \* "in", "once" (formatted), "twice" (formatted again)
    f_in,                 \* the text given
    f_lines,              \* formatted_lines of the first call
    f_out,                \* the first call's return value
    f_out2,               \* the return value of the call on f_out
    \* two runs of translate_and_summarize at the same time
    c_path,               \* run -> its argument audio_file_path
    c_pc,                 \* run -> its position
    c_fs,                 \* file name -> [exists, writer]: the shared files
    c_foreign,            \* run -> it read a file another run wrote
    c_clobbered           \* run -> another run overwrote or removed its file

t_vars == <<pc, context, audio_type, fs, prior_final, returncode, model_file,
            whisper_returncode, whisper_runs,
            transcript, formatted_transcript, t_result>>
s_vars == <<spc, s_args, prompt, status_code, body, nread, full_response,
            s_result>>
f_vars == <<fpc, f_in, f_lines, f_out, f_out2>>
c_vars == <<c_path, c_pc, c_fs, c_foreign, c_clobbered>>
vars == <<t_vars, s_vars, f_vars, c_vars>>

FileNames == {"audio_file_wav", "output_file", "final_transcript_file"}
NoFile == [exists |-> FALSE, content |-> <<>>]
File(c) == [exists |-> TRUE, content |-> c]

\* How a call ended: it returned `value` (translate_and_summarize also a
\* path), or raised exception `exc` at source line `at`.
NoResult == [kind |-> "none", value |-> <<>>, path |-> "", exc |-> "", at |-> 0]
Return(v) == [kind |-> "return", value |-> v, path |-> "", exc |-> "", at |-> 0]
ReturnPair(v, p) ==
    [kind |-> "return", value |-> v, path |-> p, exc |-> "", at |-> 0]
Raise(e, line) ==
    [kind |-> "raise", value |-> <<>>, path |-> "", exc |-> e, at |-> line]

RawTranscripts == StringsUpTo(Chars, MaxRawLen)

NoArgs == [context |-> <<>>, text |-> <<>>, audio_type |-> ""]

\* summarize_with_model not called
SIdle ==
    /\ spc = "idle" /\ s_args = NoArgs /\ prompt = <<>> /\ status_code = 0
    /\ body = <<>> /\ nread = 0 /\ full_response = <<>> /\ s_result = NoResult

\* translate_and_summarize not called
TIdle ==
    /\ pc = "idle" /\ context = <<>> /\ audio_type = ""
    /\ fs = [n \in FileNames |-> NoFile] /\ prior_final = NoFile
    /\ returncode = 0 /\ whisper_runs = 0 /\ transcript = <<>>
    /\ formatted_transcript = <<>> /\ t_result = NoResult
    /\ model_file = "unchecked" /\ whisper_returncode = 0

\* format_transcript not called on its own
FIdle ==
    /\ fpc = "idle" /\ f_in = <<>> /\ f_lines = <<>> /\ f_out = <<>>
    /\ f_out2 = <<>>

(***************************************************************************)
(* File names of a run (lines 366, 395-396, 435).  A path is a directory,  *)
(* a stem (a sequence of tokens) and an extension.                         *)
(***************************************************************************)
Runs == {1, 2}
Dirs == {"tmp", "uploads"}
Stems == {<<"a">>, <<"a", "_converted">>}
Exts == {".mp3", ".wav"}
AudioPaths == [dir : Dirs, stem : Stems, ext : Exts]

\* the file audio_file_path names
audio_file(p) == [dir |-> p.dir, name |-> p.stem \o <<p.ext>>]

\* line 366: f"{os.path.splitext(audio_file_path)[0]}_converted.wav"
output_wav_file(p) ==
    [dir |-> p.dir, name |-> p.stem \o <<"_converted", ".wav">>]

\* one name for the raw transcript of every run
output_file_fixed(p) == [dir |-> "tmp", name |-> <<"output", ".txt">>]

\* lines 395-396: output_<basename of audio_file_path>.txt in the
\* temporary directory
output_file(p) ==
    [dir |-> "tmp", name |-> <<"output_">> \o p.stem \o <<p.ext, ".txt">>]

\* line 435: "transcript.txt" in the working directory
final_transcript_file == [dir |-> "cwd", name |-> <<"transcript.txt">>]

CFiles ==
    {audio_file(p) : p \in AudioPaths}
        \cup {output_wav_file(p) : p \in AudioPaths}
        \cup {output_file(p) : p \in AudioPaths}
        \cup {output_file_fixed(p) : p \in AudioPaths}
        \cup {final_transcript_file}

\* a file that does not exist; a file last written by run r (0: by the
\* caller, before the runs)
Absent == [exists |-> FALSE, writer |-> 0]
WrittenBy(r) == [exists |-> TRUE, writer |-> r]

\* no concurrent runs
CIdle ==
    /\ c_path = [r \in Runs |-> [dir |-> "tmp", stem |-> <<"a">>, ext |-> ".mp3"]]
    /\ c_pc = [r \in Runs |-> "idle"]
    /\ c_fs = [f \in CFiles |-> Absent]
    /\ c_foreign = [r \in Runs |-> FALSE]
    /\ c_clobbered = [r \in Runs |-> FALSE]

(***************************************************************************)
(* summarize_with_model, lines 307-352.                                    *)
(***************************************************************************)
\* lines 321-325: the prompt and the request data
SBuildPrompt ==
    /\ spc = "entry"
    /\ prompt' = BuildPrompt(s_args.audio_type, s_args.context, s_args.text)
    /\ spc' = "post"
    /\ UNCHANGED <<s_args, status_code, body, nread, full_response, s_result>>
    /\ UNCHANGED <<t_vars, f_vars, c_vars>>

\* line 327: requests.post raises (the server cannot be reached)
SPostFails ==
    /\ spc = "post"
    /\ s_result' = Raise("ConnectionError", 327)
    /\ spc' = "raised"
    /\ UNCHANGED <<s_args, prompt, status_code, body, nread, full_response>>
    /\ UNCHANGED <<t_vars, f_vars, c_vars>>

\* the response read as a stream whatever its status
SPostIgnoresStatus ==
    /\ spc = "post"
    /\ \E st \in StatusCodes, b \in Bodies :
          /\ status_code' = st
          /\ body' = b
    /\ spc' = "loop"
    /\ full_response' = <<>>
    /\ UNCHANGED <<s_args, prompt, nread, s_result>>
    /\ UNCHANGED <<t_vars, f_vars, c_vars>>

\* lines 327-332 and 349-352: the response arrives; a status other than
\* 200 raises Exception
SPost ==
    /\ spc = "post"
    /\ \E st \in StatusCodes, b \in Bodies :
          /\ status_code' = st
          /\ body' = b
          /\ IF st = HTTP_OK
             THEN /\ spc' = "loop"
                  /\ s_result' = s_result
             ELSE /\ spc' = "raised"
                  /\ s_result' = Raise("Exception", 350)
    /\ full_response' = <<>>
    /\ UNCHANGED <<s_args, prompt, nread>>
    /\ UNCHANGED <<t_vars, f_vars, c_vars>>

\* lines 335-344 and 346-348: iter_lines() hands out the next line
SIterLine ==
    /\ spc = "loop"
    /\ nread < Len(body)
    /\ nread' = nread + 1
    /\ LET line == body[nread + 1]
           decoded_line == decode(line)
           json_line == json_loads(decoded_line.text)
       IN  IF line = BlankLine
           THEN UNCHANGED <<spc, full_response, s_result>>
           ELSE IF ~decoded_line.ok
           THEN /\ spc' = "raised"
                /\ s_result' = Raise("UnicodeDecodeError", 338)
                /\ UNCHANGED full_response
           ELSE IF ~json_line.ok
           THEN /\ spc' = "returned"
                /\ s_result' = Return(ParseFailure(body))
                /\ UNCHANGED full_response
           ELSE IF ~json_line.is_dict
           THEN /\ spc' = "raised"
                /\ s_result' = Raise("AttributeError", 341)
                /\ UNCHANGED full_response
           ELSE /\ full_response' = full_response \o get_response(json_line)
                /\ IF get_done(json_line)
                   THEN /\ spc' = "returned"
                        /\ s_result' = Return(full_response')
                   ELSE UNCHANGED <<spc, s_result>>
    /\ UNCHANGED <<s_args, prompt, status_code, body>>
    /\ UNCHANGED <<t_vars, f_vars, c_vars>>

\* the end of the stream taken as an error when no completion flag was seen
SIterEndIncomplete ==
    /\ spc = "loop"
    /\ nread = Len(body)
    /\ spc' = "raised"
    /\ s_result' = Raise("Exception", 345)
    /\ UNCHANGED <<s_args, prompt, status_code, body, nread, full_response>>
    /\ UNCHANGED <<t_vars, f_vars, c_vars>>

\* line 345: the stream ended without a completion flag
SIterEnd ==
    /\ spc = "loop"
    /\ nread = Len(body)
    /\ spc' = "returned"
    /\ s_result' = Return(full_response)
    /\ UNCHANGED <<s_args, prompt, status_code, body, nread, full_response>>
    /\ UNCHANGED <<t_vars, f_vars, c_vars>>

SummarizeNext ==
    \/ SBuildPrompt
    \/ SPostFails
    \/ SPost
    \/ SIterLine
    \/ SIterEnd

\* summarize_with_model called on its own, with any arguments
SummarizeInit ==
    /\ TIdle /\ FIdle /\ CIdle
    /\ spc = "entry"
    /\ s_args \in [context : Contexts, text : Texts, audio_type : AudioTypes]
    /\ prompt = <<>> /\ status_code = 0 /\ body = <<>> /\ nread = 0
    /\ full_response = <<>> /\ s_result = NoResult

SpecSummarize == SummarizeInit /\ [][SummarizeNext]_vars

(***************************************************************************)
(* format_transcript called on its own, then on its own output.            *)
(***************************************************************************)
FormatOnce ==
    /\ fpc = "in"
    /\ f_lines' = formatted_lines(f_in)
    /\ f_out' = format_transcript(f_in)
    /\ fpc' = "once"
    /\ UNCHANGED <<f_in, f_out2>>
    /\ UNCHANGED <<t_vars, s_vars, c_vars>>

FormatTwice ==
    /\ fpc = "once"
    /\ f_out2' = format_transcript(f_out)
    /\ fpc' = "twice"
    /\ UNCHANGED <<f_in, f_lines, f_out>>
    /\ UNCHANGED <<t_vars, s_vars, c_vars>>

FormatNext == FormatOnce \/ FormatTwice

FormatInit ==
    /\ TIdle /\ SIdle /\ CIdle
    /\ fpc = "in"
    /\ f_in \in StringsUpTo(Chars, MaxLen)
    /\ f_lines = <<>> /\ f_out = <<>> /\ f_out2 = <<>>

SpecFormat == FormatInit /\ [][FormatNext]_vars

(***************************************************************************)
(* translate_and_summarize, lines 381-447, with preprocess_audio_file,     *)
(* lines 354-379.  One action per stage; the outcome of an external        *)
(* process or of the environment is chosen in the action.                  *)
(***************************************************************************)
ExitCodes == {0, 1}

\* the stage without the return-code check of lines 376-377
TPreprocessUnchecked ==
    /\ pc = "entry"
    /\ \E rc \in ExitCodes, left \in BOOLEAN :
          /\ returncode' = rc
          /\ pc' = "check_binary"
          /\ UNCHANGED t_result
          /\ fs' = [fs EXCEPT !["audio_file_wav"] =
                        IF rc = 0 \/ left THEN File(<<"wav">>) ELSE @]
    /\ UNCHANGED <<context, audio_type, prior_final, whisper_runs, transcript,
                   formatted_transcript>>
    /\ UNCHANGED <<s_vars, f_vars, c_vars>>
    /\ UNCHANGED <<model_file, whisper_returncode>>

\* line 401, preprocess_audio_file: the converter writes the normalized
\* audio; when it exits non-zero it may or may not leave an output file,
\* and lines 376-377 raise
TPreprocess ==
    /\ pc = "entry"
    /\ \E rc \in ExitCodes, left \in BOOLEAN :
          /\ returncode' = rc
          /\ IF rc = 0
             THEN /\ fs' = [fs EXCEPT !["audio_file_wav"] = File(<<"wav">>)]
                  /\ pc' = "check_binary"
                  /\ UNCHANGED t_result
             ELSE /\ fs' = [fs EXCEPT !["audio_file_wav"] =
                               IF left THEN File(<<"wav">>) ELSE @]
                  /\ pc' = "raised"
                  /\ t_result' = Raise("Exception", 377)
    /\ UNCHANGED <<context, audio_type, prior_final, whisper_runs, transcript,
                   formatted_transcript>>
    /\ UNCHANGED <<s_vars, f_vars, c_vars>>
    /\ UNCHANGED <<model_file, whisper_returncode>>

\* lines 409-410: the speech-engine binary must exist
TCheckBinary ==
    /\ pc = "check_binary"
    /\ \E exists \in BOOLEAN :
          IF exists
          THEN pc' = "check_model" /\ UNCHANGED t_result
          ELSE pc' = "raised" /\ t_result' = Raise("FileNotFoundError", 410)
    /\ UNCHANGED <<context, audio_type, fs, prior_final, returncode,
                   whisper_runs, transcript, formatted_transcript>>
    /\ UNCHANGED <<s_vars, f_vars, c_vars>>
    /\ UNCHANGED <<model_file, whisper_returncode>>

\* lines 412-414: the acoustic-model file must exist
TCheckModel ==
    /\ pc = "check_model"
    /\ \E exists \in BOOLEAN :
          /\ model_file' = IF exists THEN "exists" ELSE "missing"
          /\ IF exists
             THEN pc' = "whisper" /\ UNCHANGED t_result
             ELSE pc' = "raised" /\ t_result' = Raise("FileNotFoundError", 414)
    /\ UNCHANGED <<context, audio_type, fs, prior_final, returncode,
                   whisper_runs, transcript, formatted_transcript>>
    /\ UNCHANGED <<s_vars, f_vars, c_vars>>
    /\ UNCHANGED whisper_returncode

\* lines 417-425: the shell runs the speech engine with its output
\* redirected to output_file, which exists afterwards whatever the exit
\* code; a non-zero exit code raises CalledProcessError
TRunWhisper ==
    /\ pc = "whisper"
    /\ whisper_runs' = whisper_runs + 1
    /\ \E rc \in ExitCodes, raw \in RawTranscripts :
          /\ fs' = [fs EXCEPT !["output_file"] = File(raw)]
          /\ whisper_returncode' = rc
          /\ IF rc = 0
             THEN pc' = "read" /\ UNCHANGED t_result
             ELSE pc' = "raised" /\ t_result' = Raise("CalledProcessError", 422)
    /\ UNCHANGED <<context, audio_type, prior_final, returncode, transcript,
                   formatted_transcript>>
    /\ UNCHANGED <<s_vars, f_vars, c_vars>>
    /\ UNCHANGED model_file

\* lines 428-429: the raw transcript is read; reading raises when the
\* file is no UTF-8
TReadTranscript ==
    /\ pc = "read"
    /\ \E ok \in BOOLEAN :
          IF ok
          THEN /\ transcript' = fs["output_file"].content
               /\ pc' = "format"
               /\ UNCHANGED t_result
          ELSE /\ pc' = "raised"
               /\ t_result' = Raise("UnicodeDecodeError", 429)
               /\ UNCHANGED transcript
    /\ UNCHANGED <<context, audio_type, fs, prior_final, returncode,
                   whisper_runs, formatted_transcript>>
    /\ UNCHANGED <<s_vars, f_vars, c_vars>>
    /\ UNCHANGED <<model_file, whisper_returncode>>

\* lines 432-437: format the transcript and write it to transcript.txt
TFormatAndSave ==
    /\ pc = "format"
    /\ formatted_transcript' = format_transcript(transcript)
    /\ fs' = [fs EXCEPT !["final_transcript_file"] =
                  File(formatted_transcript')]
    /\ pc' = "summarize"
    /\ UNCHANGED <<context, audio_type, prior_final, returncode, whisper_runs,
                   transcript, t_result>>
    /\ UNCHANGED <<s_vars, f_vars, c_vars>>
    /\ UNCHANGED <<model_file, whisper_returncode>>

\* line 440: the call of summarize_with_model
TCallSummarize ==
    /\ pc = "summarize"
    /\ spc = "idle"
    /\ s_args' = [context |-> context, text |-> transcript,
                  audio_type |-> audio_type]
    /\ spc' = "entry"
    /\ pc' = "summarizing"
    /\ UNCHANGED <<prompt, status_code, body, nread, full_response, s_result>>
    /\ UNCHANGED <<context, audio_type, fs, prior_final, returncode,
                   whisper_runs, transcript, formatted_transcript, t_result>>
    /\ UNCHANGED <<f_vars, c_vars>>
    /\ UNCHANGED <<model_file, whisper_returncode>>

\* the return without os.remove(output_file) of line 444
TCleanupKeepsOutput ==
    /\ pc = "summarizing"
    /\ spc = "returned"
    /\ fs' = [fs EXCEPT !["audio_file_wav"] = NoFile]
    /\ t_result' = ReturnPair(s_result.value, "transcript.txt")
    /\ pc' = "done"
    /\ UNCHANGED <<context, audio_type, prior_final, returncode, whisper_runs,
                   transcript, formatted_transcript>>
    /\ UNCHANGED <<s_vars, f_vars, c_vars>>
    /\ UNCHANGED <<model_file, whisper_returncode>>

\* lines 440-447: summarize_with_model returned; remove the two transient
\* files and return the pair
TCleanupAndReturn ==
    /\ pc = "summarizing"
    /\ spc = "returned"
    /\ fs' = [fs EXCEPT !["audio_file_wav"] = NoFile,
                        !["output_file"] = NoFile]
    /\ t_result' = ReturnPair(s_result.value, "transcript.txt")
    /\ pc' = "done"
    /\ UNCHANGED <<context, audio_type, prior_final, returncode, whisper_runs,
                   transcript, formatted_transcript>>
    /\ UNCHANGED <<s_vars, f_vars, c_vars>>
    /\ UNCHANGED <<model_file, whisper_returncode>>

\* the generation request made again after summarize_with_model raised
TSummarizeRetried ==
    /\ pc = "summarizing"
    /\ spc = "raised"
    /\ spc' = "entry"
    /\ prompt' = <<>> /\ status_code' = 0 /\ body' = <<>> /\ nread' = 0
    /\ full_response' = <<>> /\ s_result' = NoResult
    /\ UNCHANGED <<s_args, t_vars, f_vars, c_vars>>

\* line 440: summarize_with_model raised; nothing catches the exception
TSummarizeRaised ==
    /\ pc = "summarizing"
    /\ spc = "raised"
    /\ t_result' = s_result
    /\ pc' = "raised"
    /\ UNCHANGED <<context, audio_type, fs, prior_final, returncode,
                   whisper_runs, transcript, formatted_transcript>>
    /\ UNCHANGED <<s_vars, f_vars, c_vars>>
    /\ UNCHANGED <<model_file, whisper_returncode>>

\* a run of translate_and_summarize: transcript.txt may be left from an
\* earlier run
Init ==
    /\ SIdle /\ FIdle /\ CIdle
    /\ pc = "entry"
    /\ context \in Contexts
    /\ audio_type \in RunAudioTypes
    /\ prior_final \in {NoFile, File(<<"old">>)}
    /\ fs = [n \in FileNames |->
                IF n = "final_transcript_file" THEN prior_final ELSE NoFile]
    /\ returncode = 0 /\ whisper_runs = 0 /\ transcript = <<>>
    /\ formatted_transcript = <<>> /\ t_result = NoResult
    /\ model_file = "unchecked" /\ whisper_returncode = 0

Next ==
    \/ TPreprocess
    \/ TCheckBinary
    \/ TCheckModel
    \/ TRunWhisper
    \/ TReadTranscript
    \/ TFormatAndSave
    \/ TCallSummarize
    \/ SBuildPrompt
    \/ SPostFails
    \/ SPost
    \/ SIterLine
    \/ SIterEnd
    \/ TCleanupAndReturn
    \/ TSummarizeRaised

Spec == Init /\ [][Next]_vars

(***************************************************************************)
(* Two concurrent runs of translate_and_summarize and the files they       *)
(* share.  The external tools and the generation service do not fail by    *)
(* themselves here: a run fails only when a file it needs is missing.      *)
(***************************************************************************)
\* run r reads file f: it is marked when another run wrote the file
Reads(r, f) ==
    [c_foreign EXCEPT ![r] = @ \/ c_fs[f].writer \notin {0, r}]

\* run r overwrites or removes file f: the run that wrote it is marked
Clobbers(r, f) ==
    IF c_fs[f].exists /\ c_fs[f].writer \notin {0, r}
    THEN [c_clobbered EXCEPT ![c_fs[f].writer] = TRUE]
    ELSE c_clobbered

CRaise(r) == c_pc' = [c_pc EXCEPT ![r] = "raised"]
CGoto(r, l) == c_pc' = [c_pc EXCEPT ![r] = l]

\* lines 366-379: the converter reads audio_file_path and writes
\* output_wav_file (-y: over an existing file); it exits non-zero when
\* its input is missing
CPreprocess(r) ==
    /\ c_pc[r] = "entry"
    /\ IF c_fs[audio_file(c_path[r])].exists
       THEN /\ c_foreign' = Reads(r, audio_file(c_path[r]))
            /\ c_clobbered' = Clobbers(r, output_wav_file(c_path[r]))
            /\ c_fs' = [c_fs EXCEPT ![output_wav_file(c_path[r])] = WrittenBy(r)]
            /\ CGoto(r, "whisper")
       ELSE /\ CRaise(r)
            /\ UNCHANGED <<c_fs, c_foreign, c_clobbered>>
    /\ UNCHANGED <<c_path, t_vars, s_vars, f_vars>>

\* lines 417-425: the shell creates or truncates output_file, the speech
\* engine reads output_wav_file and exits non-zero when it is missing
CRunWhisper(r) ==
    /\ c_pc[r] = "whisper"
    /\ c_clobbered' = Clobbers(r, output_file(c_path[r]))
    /\ c_fs' = [c_fs EXCEPT ![output_file(c_path[r])] = WrittenBy(r)]
    /\ IF c_fs[output_wav_file(c_path[r])].exists
       THEN /\ c_foreign' = Reads(r, output_wav_file(c_path[r]))
            /\ CGoto(r, "read")
       ELSE /\ CRaise(r)
            /\ UNCHANGED c_foreign
    /\ UNCHANGED <<c_path, t_vars, s_vars, f_vars>>

\* lines 428-429: open(output_file) raises FileNotFoundError when the
\* file is missing
CReadTranscript(r) ==
    /\ c_pc[r] = "read"
    /\ IF c_fs[output_file(c_path[r])].exists
       THEN /\ c_foreign' = Reads(r, output_file(c_path[r]))
            /\ CGoto(r, "format")
       ELSE /\ CRaise(r)
            /\ UNCHANGED c_foreign
    /\ UNCHANGED <<c_path, c_fs, c_clobbered, t_vars, s_vars, f_vars>>

\* lines 432-437: transcript.txt is written
CFormatAndSave(r) ==
    /\ c_pc[r] = "format"
    /\ c_fs' = [c_fs EXCEPT ![final_transcript_file] = WrittenBy(r)]
    /\ CGoto(r, "summarize")
    /\ UNCHANGED <<c_path, c_foreign, c_clobbered, t_vars, s_vars, f_vars>>

\* line 440: summarize_with_model returns; it touches no file
CSummarize(r) ==
    /\ c_pc[r] = "summarize"
    /\ CGoto(r, "remove_wav")
    /\ UNCHANGED <<c_path, c_fs, c_foreign, c_clobbered, t_vars, s_vars,
                   f_vars>>

\* line 443: os.remove(audio_file_wav) raises FileNotFoundError when the
\* file is missing
CRemoveWav(r) ==
    /\ c_pc[r] = "remove_wav"
    /\ IF c_fs[output_wav_file(c_path[r])].exists
       THEN /\ c_clobbered' = Clobbers(r, output_wav_file(c_path[r]))
            /\ c_fs' = [c_fs EXCEPT ![output_wav_file(c_path[r])] = Absent]
            /\ CGoto(r, "remove_output")
       ELSE /\ CRaise(r)
            /\ UNCHANGED <<c_fs, c_clobbered>>
    /\ UNCHANGED <<c_path, c_foreign, t_vars, s_vars, f_vars>>

\* lines 444-447: os.remove(output_file), then the return
CRemoveOutput(r) ==
    /\ c_pc[r] = "remove_output"
    /\ IF c_fs[output_file(c_path[r])].exists
       THEN /\ c_clobbered' = Clobbers(r, output_file(c_path[r]))
            /\ c_fs' = [c_fs EXCEPT ![output_file(c_path[r])] = Absent]
            /\ CGoto(r, "done")
       ELSE /\ CRaise(r)
            /\ UNCHANGED <<c_fs, c_clobbered>>
    /\ UNCHANGED <<c_path, c_foreign, t_vars, s_vars, f_vars>>

ConcurrentNext ==
    \E r \in Runs :
        \/ CPreprocess(r)
        \/ CRunWhisper(r)
        \/ CReadTranscript(r)
        \/ CFormatAndSave(r)
        \/ CSummarize(r)
        \/ CRemoveWav(r)
        \/ CRemoveOutput(r)

\* two runs start, each on an audio file that exists
ConcurrentInit ==
    /\ TIdle /\ SIdle /\ FIdle
    /\ c_path \in [Runs -> AudioPaths]
    /\ c_pc = [r \in Runs |-> "entry"]
    /\ c_fs = [f \in CFiles |->
                  IF \E r \in Runs : f = audio_file(c_path[r])
                  THEN WrittenBy(0) ELSE Absent]
    /\ c_foreign = [r \in Runs |-> FALSE]
    /\ c_clobbered = [r \in Runs |-> FALSE]

SpecConcurrent == ConcurrentInit /\ [][ConcurrentNext]_vars

(***************************************************************************)
(* Properties of the pipeline, checked under Spec.                         *)
(***************************************************************************)
wav == fs["audio_file_wav"]
raw_file == fs["output_file"]
final == fs["final_transcript_file"]

\* C1: when a stage after audio normalization fails, the normalized-audio
\* file of the run has been removed by the time the error reaches the
\* caller.
C1_NormalizedAudioRemovedOnFailure ==
    (pc = "raised" /\ returncode = 0) => ~wav.exists

\* the raw transcript has a non-blank line without a timestamp marker
HasPlainLine(raw) ==
    \E i \in 1..Len(split(raw, NL)) :
        /\ strip(split(raw, NL)[i]) # <<>>
        /\ ~Contains(split(raw, NL)[i], ARROW)

C3_ConverterFailureStopsRun ==
    returncode # 0 => (whisper_runs = 0 /\ final = prior_final)

\* the converter failed, the error reached the caller, and a transcript.txt
\* of an earlier run is there
C3_Witness ==
    /\ returncode # 0 /\ pc = "raised" /\ t_result.at = 377
    /\ prior_final.exists

\* the text between "Transcript:\n" and the trailing cue of a prompt
TranscriptSection(p) ==
    LET i == CHOOSE k \in 1..Len(p) : p[k] = "\n\nTranscript:\n"
    IN  SubSeq(p, i + 1, Len(p) - 1)

\* C4: the transcript section of the prompt sent is the text this run
\* wrote to transcript.txt.
C4_PromptCarriesFormattedTranscript ==
    (pc = "summarizing" /\ spc \notin {"idle", "entry"}) =>
        TranscriptSection(prompt) = final.content

\* The stages of a run in their order: normalize (1), the two existence
\* checks (2, 3), transcribe (4) and read the raw transcript (5), format
\* and write transcript.txt (6), call summarize_with_model (7), build the
\* prompt (8), send the request (9), assemble the summary (10), clean up
\* and return (11); 12 is Done and 0 is a run in which a stage failed.
Position ==
    CASE pc = "entry" -> 1
      [] pc = "check_binary" -> 2
      [] pc = "check_model" -> 3
      [] pc = "whisper" -> 4
      [] pc = "read" -> 5
      [] pc = "format" -> 6
      [] pc = "summarize" -> 7
      [] pc = "summarizing" /\ spc = "entry" -> 8
      [] pc = "summarizing" /\ spc = "post" -> 9
      [] pc = "summarizing" /\ spc = "loop" -> 10
      [] pc = "summarizing" /\ spc = "returned" -> 11
      [] pc = "done" -> 12
      [] OTHER -> 0

\* what a step of a run may do: after a failure, only hand the exception
\* of summarize_with_model to the caller; otherwise fail, or complete the
\* stage the run is at and move to the next one (reading a line of the
\* stream stays in the assembly), each stage having its effect only at
\* its own position
StageStep ==
    /\ Position # 12
    /\ pc # "raised"
    /\ IF Position = 0
       THEN /\ pc' = "raised"
            /\ fs' = fs /\ whisper_runs' = whisper_runs /\ s_vars' = s_vars
       ELSE \/ Position' = 0
            \/ Position' = Position + 1
            \/ Position = 10 /\ Position' = 10 /\ nread' = nread + 1
    /\ wav' # wav => (Position = 1 \/ Position = 11)
    /\ whisper_runs' # whisper_runs => (Position = 4 /\ whisper_runs' = 1)
    /\ raw_file' # raw_file => (Position = 4 \/ Position = 11)
    /\ transcript' # transcript => Position = 5
    /\ formatted_transcript' # formatted_transcript => Position = 6
    /\ final' # final =>
          (Position = 6 /\ final'.content = formatted_transcript')
    /\ prompt' # prompt => Position = 8
    /\ status_code' # status_code => Position = 9
    /\ full_response' # full_response => Position = 10
    /\ Position' = 12 =>
          (t_result'.kind = "return" /\ t_result'.value = s_result.value)

\* C12: the stages of a run happen in the order normalize, transcribe,
\* format, write transcript.txt, build the prompt, send the generation
\* request, each after the one before it succeeded and at most once; Done
\* is reached only after the summary was assembled, and no stage is
\* started after a failure.
C12_StagesInOrder == [][StageStep]_vars

\* a run went through every stage and returned
C12_Witness ==
    /\ pc = "done" /\ whisper_runs = 1 /\ wav = NoFile /\ raw_file = NoFile
    /\ final = File(formatted_transcript) /\ status_code = HTTP_OK
    /\ prompt # <<>> /\ t_result.value = s_result.value

\* a stage of the run failed: the converter or the speech engine exited
\* non-zero, the acoustic-model file is missing, or the generation
\* endpoint answered with a status other than 200
ConverterFailed == returncode # 0
ModelMissing == model_file = "missing"
SpeechEngineFailed == whisper_returncode # 0
GenerationRefused ==
    /\ spc \in {"loop", "returned", "raised"}
    /\ status_code # HTTP_OK
StageFailed ==
    ConverterFailed \/ ModelMissing \/ SpeechEngineFailed \/ GenerationRefused

\* C13: when the converter exits non-zero, the acoustic-model file is
\* missing (found out before the speech engine is run), the speech engine
\* exits non-zero or the generation endpoint answers with a non-success
\* status, the run raises to the caller and never returns a pair.
C13_StageFailureRaises ==
    /\ StageFailed =>
          /\ pc # "done" /\ t_result.kind # "return"
          /\ \/ pc = "raised" /\ t_result.kind = "raise"
             \/ pc = "summarizing" /\ spc = "raised" /\ s_result.kind = "raise"
    /\ ModelMissing => whisper_runs = 0

\* the generation endpoint answered 500 and the error reached the caller
C13_Witness ==
    /\ GenerationRefused /\ pc = "raised" /\ t_result.at = 350

(***************************************************************************)
(* Properties of concurrent runs, checked under SpecConcurrent.            *)
(***************************************************************************)
\* no run failed, read a file another run wrote, or had a file of its own
\* overwritten or removed by another run; transcript.txt is the only file
\* that may carry another run's writes
RunsDoNotInterfere ==
    \A r \in Runs :
        /\ c_pc[r] # "raised"
        /\ ~c_foreign[r]
        /\ ~c_clobbered[r]
        /\ \A f \in {audio_file(c_path[r]), output_wav_file(c_path[r]),
                      output_file(c_path[r])} :
               c_fs[f].exists => c_fs[f].writer \in {0, r}

IndependentPaths(p, q) ==
    /\ (p.dir # q.dir \/ p.stem # q.stem)
    /\ (p.stem # q.stem \/ p.ext # q.ext)
    /\ ~(p.dir = q.dir /\ p.stem \o <<p.ext>> = q.stem \o <<"_converted", ".wav">>)
    /\ ~(p.dir = q.dir /\ q.stem \o <<q.ext>> = p.stem \o <<"_converted", ".wav">>)

Streaming == spc \in {"loop", "returned", "raised"} /\ status_code = HTTP_OK

\* every line of the body is a fragment with a text and a completion flag
WellFormed(b) == \A i \in 1..Len(b) : b[i] \in {FragX, FragY}
FragText(l) == IF l = FragX THEN <<"x">> ELSE <<"y">>
FragDone(l) == l = FragY

\* the index of the first completion-flagged fragment, or the length
StopIndex(b) ==
    IF \E i \in 1..Len(b) : FragDone(b[i])
    THEN CHOOSE i \in 1..Len(b) :
             FragDone(b[i]) /\ \A j \in 1..(i - 1) : ~FragDone(b[j])
    ELSE Len(b)

\* the texts of the first n fragments, concatenated in order
RECURSIVE ConcatTexts(_, _)
ConcatTexts(b, n) ==
    IF n = 0 THEN <<>> ELSE ConcatTexts(b, n - 1) \o FragText(b[n])

\* C5: for a success-status stream of well-formed fragments the result is
\* the concatenation, in arrival order, of the texts up to and including
\* the first completion-flagged fragment, and no later fragment is read.
C5_ConcatenatesUpToFirstDone ==
    (Streaming /\ WellFormed(body)) =>
        /\ nread <= StopIndex(body)
        /\ spc # "raised"
        /\ spc = "returned" =>
              s_result = Return(ConcatTexts(body, StopIndex(body)))

\* a stream returned with a fragment left unread after the completion flag
C5_Witness ==
    /\ Streaming /\ WellFormed(body) /\ spc = "returned"
    /\ nread < Len(body) /\ nread > 0

\* t occurs in s
ContainsText(s, t) ==
    \E i \in 0..(Len(s) - Len(t)) : SubSeq(s, i + 1, i + Len(t)) = t

\* a line that does not parse as a JSON object (an object that lacks the
\* text field or the completion flag is not counted here)
NotAnObject(l) == l \in {JsonArray, NotJson, BadUtf8}

\* C6: when a line read from a success-status stream does not parse as the
\* expected format, the call does not raise and returns a diagnostic text
\* that contains the raw response body.
C6_MalformedLineYieldsDiagnostic ==
    (Streaming /\ \E i \in 1..nread : NotAnObject(body[i])) =>
        /\ s_result.kind = "return"
        /\ ContainsText(s_result.value, response_text(body))
        /\ s_result.value # full_response

\* C10: the prompt sent is the template of the category (or the fallback
\* sentinel), the context (or the placeholder), the transcript and the
\* trailing cue, in that layout.
C10_PromptLayout ==
    spc \notin {"idle", "entry"} =>
        prompt =
            (IF s_args.audio_type \in PromptKeys
             THEN prompts[s_args.audio_type]
             ELSE <<"No prompt available for this audio type.">>)
            \o <<"\n\nContext: ">>
            \o (IF s_args.context = <<>>
                THEN <<"No additional context provided.">>
                ELSE s_args.context)
            \o <<"\n\nTranscript:\n">> \o s_args.text \o <<"\n\nSummary:">>

\* a request was sent for a category without template and an empty context
C10_Witness ==
    /\ spc = "loop" /\ s_args.audio_type \notin PromptKeys
    /\ s_args.context = <<>> /\ s_args.text # <<>>

\* no fragment of the body carries the completion flag
NoDone(b) == \A i \in 1..Len(b) : ~FragDone(b[i])

\* C14: when a success-status stream of well-formed fragments ends without
\* a completion flag (the empty stream included), the call does not fail:
\* it reads every fragment and returns the concatenation of all the texts.
C14_StreamWithoutDoneReturnsAll ==
    (Streaming /\ WellFormed(body) /\ NoDone(body)) =>
        /\ spc \in {"loop", "returned"}
        /\ spc = "returned" =>
              /\ nread = Len(body)
              /\ s_result.kind = "return"
              /\ s_result.value = ConcatTexts(body, Len(body))
              /\ body = <<>> => s_result.value = <<>>

\* a stream of fragments without completion flag was read to its end
C14_Witness ==
    /\ Streaming /\ WellFormed(body) /\ NoDone(body) /\ Len(body) > 0
    /\ spc = "returned" /\ s_result.value # <<>>

(***************************************************************************)
(* Properties of format_transcript, checked under SpecFormat.              *)
(***************************************************************************)
\* C7: format_transcript is idempotent.
C7_FormatIdempotent == fpc = "twice" => f_out2 = f_out

\* C8: no line of the output of format_transcript is empty or composed
\* only of whitespace.
C8_NoBlankOutputLine ==
    (fpc # "in" /\ f_out # <<>>) =>
        \A i \in 1..Len(split(f_out, NL)) : strip(split(f_out, NL)[i]) # <<>>

NonBlank(l) == strip(l) # <<>>

\* everything after the first timestamp marker of a line
AfterFirstMarker(line) ==
    LET i == CHOOSE k \in 1..Len(line) :
                 line[k] = ARROW /\ \A j \in 1..(k - 1) : line[j] # ARROW
    IN  SubSeq(line, i + 1, Len(line))

\* C9: the output line of a non-blank input line with a timestamp marker
\* is the whole remainder of the line after the marker, trimmed, and the
\* retained lines keep their order.
C9_KeepsWholeRemainder ==
    fpc # "in" =>
        LET kept == SelectSeq(split(f_in, NL), NonBlank)
        IN  /\ Len(f_lines) = Len(kept)
            /\ \A i \in 1..Len(kept) :
                  Contains(kept[i], ARROW) =>
                      f_lines[i] = strip(AfterFirstMarker(kept[i]))

=============================================================================
